---- MODULE Spec2Model ----
(***************************************************************************)
(* Model of aws_smtp_sender.py: the SMTPRotator relay pool, the            *)
(* EmailSender workers run by a ThreadPoolExecutor, the progress display   *)
(* thread and main's wait/summary/report sequence.                         *)
(***************************************************************************)
EXTENDS Integers, Sequences, FiniteSets, TLC

\* ---------------------------------------------------------------- bounds
MaxServers == 2
MaxEmails == 4
MaxThreads == 2

\* ------------------------------------------------------ program constants
BurstThreshold == 3

Workers == 1..MaxThreads
NoWorker == 0

VARIABLES
    total_emails,    \* len(email_list)
    threads,         \* max_workers of the executor
    smtp_servers,    \* sequence of [id, count, disabled]
    current_index,   \* rotation cursor, 0-based
    lock,            \* SMTPRotator.lock: NoWorker or the holder
    success_count,
    failure_count,
    senderLock,      \* EmailSender.lock: NoWorker or the holder
    progress_queue,  \* sequence of <<recipient, success>>
    nextTask,        \* next recipient the executor hands out
    pc,              \* per worker: position inside send_email
    rcpt,            \* per worker: recipient of the running send_email
    smtp_info,       \* per worker: index of the relay get_next_server returned
    scanI,           \* per worker: iterations done of the for loop (line 78)
    tmp,             \* per worker: counter value loaded by "+= 1"
    ok,              \* per worker: TRUE on the success branch
    mainPc,          \* main: "dispatch", "wait", "summary", "report", "done"
    displayPc,       \* display_progress: "poll" or "stopped"
    summary,         \* the printed summary, <<>> before it is printed
    finished,        \* per recipient: "no", "returned", "raised"
    incs,            \* per recipient: counter increments made for it
    puts,            \* per recipient: outcome tuples enqueued for it
    selected,        \* per relay: times get_next_server returned it
    out,             \* per worker: outcome of the delivery being handled
    succDone,        \* completed "success_count += 1" statements
    failDone         \* completed "failure_count += 1" statements

cfgVars == <<total_emails, threads>>
poolVars == <<smtp_servers, current_index, lock>>
senderVars == <<success_count, failure_count, senderLock, progress_queue>>
workerVars == <<pc, rcpt, smtp_info, scanI, tmp, ok>>
mainVars == <<mainPc, summary>>
displayVars == <<displayPc>>
histVars == <<finished, incs, puts, selected>>
doneVars == <<succDone, failDone>>
vars == <<cfgVars, poolVars, senderVars, workerVars, nextTask, mainVars, displayVars, histVars, out, doneVars>>

\* recipients of the largest list a run can have: MaxEmails, or one full burst
\* per relay
MaxRcpt == IF MaxEmails > BurstThreshold * MaxServers THEN MaxEmails ELSE BurstThreshold * MaxServers
Recipients == 1..MaxRcpt

\* ------------------------------------------------------------ SMTPRotator
NumServers == Len(smtp_servers)

\* one record of load_smtp_servers: identity (server, port, username, region)
\* abstracted to id; count 0, not disabled
NewServer(id) == [id |-> id, count |-> 0, disabled |-> FALSE]

\* relay files: all identities distinct, or every line the same identity
ServerFiles == UNION {{[i \in 1..n |-> NewServer(i)], [i \in 1..n |-> NewServer(1)]} : n \in 1..MaxServers}

IsDisabledMut(server) == FALSE
IsDisabled(server) == server.disabled

UnderBurstMut(server) == server.count <= BurstThreshold
UnderBurst(server) == server.count < BurstThreshold

NextIndexMut(i, n) == i
NextIndexNoWrap(i, n) == i + 1
NextIndex(i, n) == (i + 1) % n

\* the cursor after "return server" (lines 85-87 leave it on the relay)
AfterSelectMut(i, n) == (i + 1) % n
AfterSelect(i, n) == i

\* threading.Lock of the pool can be taken (lines 70 and 97)
PoolLockFreeMut == TRUE
PoolLockFree == lock = NoWorker

\* threading.Lock of the sender can be taken (lines 140, 146, 150)
SenderLockFreeMut == TRUE
SenderLockFree == senderLock = NoWorker

SameIdentity(server, info) == server.id = info.id

DisableAllMut(servers, info) == [i \in DOMAIN servers |-> IF SameIdentity(servers[i], info) THEN [servers[i] EXCEPT !.disabled = ~@] ELSE servers[i]]
DisableAll(servers, info) == [i \in DOMAIN servers |-> IF SameIdentity(servers[i], info) THEN [servers[i] EXCEPT !.disabled = TRUE] ELSE servers[i]]

\* ------------------------------------------------------------------- Init
\* the state after construction, but for the length of the recipient list
InitRest ==
    /\ threads \in 1..MaxThreads
    /\ smtp_servers \in ServerFiles
    /\ current_index = 0
    /\ lock = NoWorker
    /\ success_count = 0
    /\ failure_count = 0
    /\ senderLock = NoWorker
    /\ progress_queue = <<>>
    /\ nextTask = 1
    /\ pc = [w \in Workers |-> "idle"]
    /\ rcpt = [w \in Workers |-> 0]
    /\ smtp_info = [w \in Workers |-> 0]
    /\ scanI = [w \in Workers |-> 0]
    /\ tmp = [w \in Workers |-> 0]
    /\ ok = [w \in Workers |-> FALSE]
    /\ mainPc = "dispatch"
    /\ displayPc = "poll"
    /\ summary = <<>>
    /\ finished = [r \in Recipients |-> "no"]
    /\ incs = [r \in Recipients |-> 0]
    /\ puts = [r \in Recipients |-> 0]
    /\ selected = [i \in 1..MaxServers |-> 0]
    /\ out = [w \in Workers |-> "none"]
    /\ succDone = 0
    /\ failDone = 0

Init ==
    /\ total_emails \in 0..MaxEmails
    /\ InitRest

\* ------------------------------------------------------- executor workers
\* a worker thread of the pool takes the next recipient and calls send_email
TakeTask(w) ==
    /\ mainPc = "dispatch"
    /\ w <= threads
    /\ pc[w] = "idle"
    /\ nextTask <= total_emails
    /\ rcpt' = [rcpt EXCEPT ![w] = nextTask]
    /\ nextTask' = nextTask + 1
    /\ pc' = [pc EXCEPT ![w] = "gns_lock"]
    /\ UNCHANGED <<cfgVars, poolVars, senderVars, smtp_info, scanI, tmp, ok, mainVars, displayVars, histVars, out, doneVars>>

\* get_next_server: "with self.lock" (also the recursive call of line 94,
\* made while the caller still holds the non-reentrant lock)
AcquireLock(w) ==
    /\ pc[w] = "gns_lock"
    /\ PoolLockFree
    /\ lock' = w
    /\ pc' = [pc EXCEPT ![w] = "gns_check"]
    /\ UNCHANGED <<cfgVars, smtp_servers, current_index, senderVars, rcpt, smtp_info, scanI, tmp, ok, nextTask, mainVars, displayVars, histVars, out, doneVars>>

CheckGateMut(w) ==
    /\ pc[w] = "gns_check"
    /\ \E enabled \in BOOLEAN :
        IF enabled
        THEN /\ pc' = [pc EXCEPT ![w] = "gns_scan"]
             /\ scanI' = [scanI EXCEPT ![w] = 0]
             /\ UNCHANGED <<lock, finished, rcpt>>
        ELSE /\ pc' = [pc EXCEPT ![w] = "idle"]
             /\ finished' = [finished EXCEPT ![rcpt[w]] = "raised"]
             /\ rcpt' = [rcpt EXCEPT ![w] = 0]
             /\ UNCHANGED <<lock, scanI>>
    /\ UNCHANGED <<cfgVars, smtp_servers, current_index, senderVars, smtp_info, tmp, ok, nextTask, mainVars, displayVars, incs, puts, selected, out, doneVars>>

\* check_sending_enabled: the provider's answer is an input; on False exit(1)
\* raises SystemExit in the worker thread, the with block releases the lock,
\* and the executor stores the exception in the (never read) future
CheckGate(w) ==
    /\ pc[w] = "gns_check"
    /\ \E enabled \in BOOLEAN :
        IF enabled
        THEN /\ pc' = [pc EXCEPT ![w] = "gns_scan"]
             /\ scanI' = [scanI EXCEPT ![w] = 0]
             /\ UNCHANGED <<lock, finished, rcpt>>
        ELSE /\ pc' = [pc EXCEPT ![w] = "idle"]
             /\ lock' = NoWorker
             /\ finished' = [finished EXCEPT ![rcpt[w]] = "raised"]
             /\ rcpt' = [rcpt EXCEPT ![w] = 0]
             /\ UNCHANGED scanI
    /\ UNCHANGED <<cfgVars, smtp_servers, current_index, senderVars, smtp_info, tmp, ok, nextTask, mainVars, displayVars, incs, puts, selected, out, doneVars>>

\* one iteration of the for loop, lines 78-90
ScanStep(w) ==
    /\ pc[w] = "gns_scan"
    /\ scanI[w] < NumServers
    /\ LET i == current_index + 1
           server == smtp_servers[i]
       IN  IF IsDisabled(server)
           THEN /\ current_index' = NextIndex(current_index, NumServers)
                /\ scanI' = [scanI EXCEPT ![w] = @ + 1]
                /\ UNCHANGED <<smtp_servers, lock, pc, smtp_info, selected>>
           ELSE IF UnderBurst(server)
           THEN /\ smtp_servers' = [smtp_servers EXCEPT ![i].count = @ + 1]
                /\ smtp_info' = [smtp_info EXCEPT ![w] = i]
                /\ selected' = [selected EXCEPT ![i] = @ + 1]
                /\ lock' = NoWorker
                /\ pc' = [pc EXCEPT ![w] = "deliver"]
                /\ scanI' = [scanI EXCEPT ![w] = 0]
                /\ current_index' = AfterSelect(current_index, NumServers)
           ELSE /\ current_index' = NextIndex(current_index, NumServers)
                /\ smtp_servers' = [smtp_servers EXCEPT ![i].count = 0]
                /\ scanI' = [scanI EXCEPT ![w] = @ + 1]
                /\ UNCHANGED <<lock, pc, smtp_info, selected>>
    /\ UNCHANGED <<cfgVars, senderVars, rcpt, tmp, ok, nextTask, mainVars, displayVars, finished, incs, puts, out, doneVars>>

\* lines 92-94: the loop found no relay; sleep, then call get_next_server
\* again from inside the with block
RetryAcquire(w) ==
    /\ pc[w] = "gns_scan"
    /\ scanI[w] = NumServers
    /\ pc' = [pc EXCEPT ![w] = "gns_lock"]
    /\ UNCHANGED <<cfgVars, poolVars, senderVars, rcpt, smtp_info, scanI, tmp, ok, nextTask, mainVars, displayVars, histVars, out, doneVars>>

Outcomes == {"sent", "paused454", "smtp_error", "exception"}

\* line 144: the SMTPResponseException is the paused-account error
IsPausedErrorMut(o) == o \in {"paused454", "smtp_error"}
IsPausedError(o) == o = "paused454"

\* lines 134-138 and the choice of the except clause
Deliver(w) ==
    /\ pc[w] = "deliver"
    /\ \E o \in Outcomes :
        /\ ok' = [ok EXCEPT ![w] = (o = "sent")]
        /\ out' = [out EXCEPT ![w] = o]
        /\ pc' = [pc EXCEPT ![w] = IF IsPausedError(o) THEN "dis_lock" ELSE "inc_lock"]
    /\ UNCHANGED <<cfgVars, poolVars, senderVars, rcpt, smtp_info, scanI, tmp, nextTask, mainVars, displayVars, histVars, doneVars>>

\* disable_server: "with self.lock"
DisableLock(w) ==
    /\ pc[w] = "dis_lock"
    /\ PoolLockFree
    /\ lock' = w
    /\ pc' = [pc EXCEPT ![w] = "dis_body"]
    /\ UNCHANGED <<cfgVars, smtp_servers, current_index, senderVars, rcpt, smtp_info, scanI, tmp, ok, nextTask, mainVars, displayVars, histVars, out, doneVars>>

\* disable_server: the for loop, then the lock is released
DisableBody(w) ==
    /\ pc[w] = "dis_body"
    /\ smtp_servers' = DisableAll(smtp_servers, smtp_servers[smtp_info[w]])
    /\ lock' = NoWorker
    /\ pc' = [pc EXCEPT ![w] = "inc_lock"]
    /\ UNCHANGED <<cfgVars, current_index, senderVars, rcpt, smtp_info, scanI, tmp, ok, nextTask, mainVars, displayVars, histVars, out, doneVars>>

\* "with self.lock:" and the load of "+= 1"
CounterLock(w) ==
    /\ pc[w] = "inc_lock"
    /\ SenderLockFree
    /\ senderLock' = w
    /\ tmp' = [tmp EXCEPT ![w] = IF ok[w] THEN success_count ELSE failure_count]
    /\ pc' = [pc EXCEPT ![w] = "inc_store"]
    /\ UNCHANGED <<cfgVars, poolVars, success_count, failure_count, progress_queue, rcpt, smtp_info, scanI, ok, nextTask, mainVars, displayVars, histVars, out, doneVars>>

\* the store of "+= 1" and the release of the lock
CounterStore(w) ==
    /\ pc[w] = "inc_store"
    /\ IF ok[w]
       THEN success_count' = tmp[w] + 1 /\ UNCHANGED failure_count
       ELSE failure_count' = tmp[w] + 1 /\ UNCHANGED success_count
    /\ senderLock' = NoWorker
    /\ incs' = [incs EXCEPT ![rcpt[w]] = @ + 1]
    /\ tmp' = [tmp EXCEPT ![w] = 0]
    /\ succDone' = IF ok[w] THEN succDone + 1 ELSE succDone
    /\ failDone' = IF ok[w] THEN failDone ELSE failDone + 1
    /\ pc' = [pc EXCEPT ![w] = "put"]
    /\ UNCHANGED <<cfgVars, poolVars, progress_queue, rcpt, smtp_info, scanI, ok, nextTask, mainVars, displayVars, finished, puts, selected, out>>

\* progress_queue.put, after which send_email returns
QueuePut(w) ==
    /\ pc[w] = "put"
    /\ progress_queue' = Append(progress_queue, <<rcpt[w], ok[w]>>)
    /\ puts' = [puts EXCEPT ![rcpt[w]] = @ + 1]
    /\ finished' = [finished EXCEPT ![rcpt[w]] = "returned"]
    /\ rcpt' = [rcpt EXCEPT ![w] = 0]
    /\ smtp_info' = [smtp_info EXCEPT ![w] = 0]
    /\ ok' = [ok EXCEPT ![w] = FALSE]
    /\ out' = [out EXCEPT ![w] = "none"]
    /\ pc' = [pc EXCEPT ![w] = "idle"]
    /\ UNCHANGED <<cfgVars, poolVars, success_count, failure_count, senderLock, scanI, tmp, nextTask, mainVars, displayVars, incs, selected, doneVars>>

\* ------------------------------------------------------------------- main
\* leaving the "with ThreadPoolExecutor" block: shutdown(wait=True)
\* shutdown(wait=True): every submitted call has been taken and has ended
ExecutorDrainedMut == nextTask > total_emails
ExecutorDrained == nextTask > total_emails /\ \A w \in Workers : pc[w] = "idle"

ExecutorJoin ==
    /\ mainPc = "dispatch"
    /\ ExecutorDrained
    /\ mainPc' = "wait"
    /\ UNCHANGED <<cfgVars, poolVars, senderVars, workerVars, nextTask, summary, displayVars, histVars, out, doneVars>>

WaitLoopDoneMut == TRUE
WaitLoopDone == ~(success_count + failure_count < total_emails)

\* the wait loop of lines 276-277 is left
MainPassWait ==
    /\ mainPc = "wait"
    /\ WaitLoopDone
    /\ mainPc' = "summary"
    /\ UNCHANGED <<cfgVars, poolVars, senderVars, workerVars, nextTask, summary, displayVars, histVars, out, doneVars>>

MainSummary ==
    /\ mainPc = "summary"
    /\ summary' = <<success_count, failure_count>>
    /\ mainPc' = "report"
    /\ UNCHANGED <<cfgVars, poolVars, senderVars, workerVars, nextTask, displayVars, histVars, out, doneVars>>

\* the failure report drains the queue when there was a failure
MainReport ==
    /\ mainPc = "report"
    /\ progress_queue' = IF failure_count > 0 THEN <<>> ELSE progress_queue
    /\ mainPc' = "done"
    /\ UNCHANGED <<cfgVars, poolVars, success_count, failure_count, senderLock, workerVars, nextTask, summary, displayVars, histVars, out, doneVars>>

\* ------------------------------------------------------- display_progress
\* the loop of line 155 is left once its condition is false; until then each
\* round only sleeps and prints
DisplayStop ==
    /\ displayPc = "poll"
    /\ mainPc # "done"
    /\ ~(success_count + failure_count < total_emails)
    /\ displayPc' = "stopped"
    /\ UNCHANGED <<cfgVars, poolVars, senderVars, workerVars, nextTask, mainVars, histVars, out, doneVars>>

\* ------------------------------------------------------------------- Next
Next ==
    \/ \E w \in Workers : TakeTask(w)
    \/ \E w \in Workers : AcquireLock(w)
    \/ \E w \in Workers : CheckGate(w)
    \/ \E w \in Workers : ScanStep(w)
    \/ \E w \in Workers : RetryAcquire(w)
    \/ \E w \in Workers : Deliver(w)
    \/ \E w \in Workers : DisableLock(w)
    \/ \E w \in Workers : DisableBody(w)
    \/ \E w \in Workers : CounterLock(w)
    \/ \E w \in Workers : CounterStore(w)
    \/ \E w \in Workers : QueuePut(w)
    \/ ExecutorJoin
    \/ MainPassWait
    \/ MainSummary
    \/ MainReport
    \/ DisplayStop

Spec == Init /\ [][Next]_vars

WorkerStep(w) ==
    \/ TakeTask(w) \/ AcquireLock(w) \/ CheckGate(w) \/ ScanStep(w)
    \/ RetryAcquire(w) \/ Deliver(w) \/ DisableLock(w) \/ DisableBody(w)
    \/ CounterLock(w) \/ CounterStore(w) \/ QueuePut(w)

MainStep == ExecutorJoin \/ MainPassWait \/ MainSummary \/ MainReport

\* every thread that can run is eventually scheduled
FairSpec == Spec /\ (\A w \in Workers : WF_vars(WorkerStep(w))) /\ WF_vars(MainStep) /\ WF_vars(DisplayStop)

\* ------------------------------------------------------------- scenario A
\* one full burst of recipients per relay, the provider gate always enabled
\* and every delivery successful
ScenarioAInit ==
    /\ InitRest
    /\ total_emails = BurstThreshold * NumServers

GateEnabled(w) == CheckGate(w) /\ pc'[w] = "gns_scan"

DeliverSent(w) == Deliver(w) /\ out'[w] = "sent"

ScenarioANext ==
    \/ \E w \in Workers : TakeTask(w)
    \/ \E w \in Workers : AcquireLock(w)
    \/ \E w \in Workers : GateEnabled(w)
    \/ \E w \in Workers : ScanStep(w)
    \/ \E w \in Workers : DeliverSent(w)
    \/ \E w \in Workers : CounterLock(w)
    \/ \E w \in Workers : CounterStore(w)
    \/ \E w \in Workers : QueuePut(w)
    \/ ExecutorJoin
    \/ MainPassWait
    \/ MainSummary
    \/ MainReport
    \/ DisplayStop

\* some thread that can run is eventually scheduled
ScenarioASpec == ScenarioAInit /\ [][ScenarioANext]_vars /\ WF_vars(ScenarioANext)

\* ------------------------------------------------------------ properties
Sum == success_count + failure_count
GnsPcs == {"gns_lock", "gns_check", "gns_scan"}
Relays == 1..NumServers
GateFalseSeen == \E r \in 1..MaxEmails : finished[r] = "raised"
NoneDisabled == \A i \in Relays : ~smtp_servers[i].disabled
AllDisabled == \A i \in Relays : smtp_servers[i].disabled
NoneSelected == \A i \in Relays : selected[i] = 0

\* C1: success_count + failure_count never exceeds the number of recipients,
\* and once main has passed its wait loop (summary, report, end) the sum
\* equals the number of recipients.
C1_CountsMatchTotal ==
    /\ Sum <= total_emails
    /\ mainPc \in {"summary", "report", "done"} => Sum = total_emails

\* main has finished a run with the largest recipient list, with both kinds
\* of outcome
C1_Witness ==
    /\ mainPc = "done"
    /\ total_emails = MaxEmails
    /\ success_count > 0
    /\ failure_count > 0

\* C2: a step never returns (selects) a relay that is disabled before the
\* step, whichever worker takes it.
C2_DisabledNeverReturned ==
    [][\A i \in Relays : smtp_servers[i].disabled => selected'[i] = selected[i]]_vars

\* relay 1 was disabled with a count below the threshold, a later scan moved
\* the cursor past it and returned relay 2
C2_Witness ==
    /\ NumServers >= 2
    /\ smtp_servers[1].disabled
    /\ smtp_servers[1].count \in 1..(BurstThreshold - 1)
    /\ current_index = 1
    /\ selected[2] > 0

\* C3: every relay's usage count is between 0 and the burst threshold.
C3_CountWithinBurst ==
    \A i \in Relays : smtp_servers[i].count \in 0..BurstThreshold

\* relay 1 reached the threshold, was reset by a later scan, and relay 2 was
\* returned
C3_Witness ==
    /\ NumServers >= 2
    /\ selected[1] = BurstThreshold
    /\ smtp_servers[1].count = 0
    /\ smtp_servers[2].count = 1

\* C4 (as claimed): a get_next_server call that has passed the provider gate
\* while some relay is not disabled eventually ends (returns a relay).
C4_AcquireEventuallyReturns ==
    \A w \in Workers : (pc[w] = "gns_scan" /\ ~AllDisabled) ~> (pc[w] \notin GnsPcs)

\* C5 (as claimed): when every relay is disabled, a get_next_server call that
\* has scanned the pool hands control back to send_email's caller instead of
\* blocking forever.
C5_ExhaustionSurfaces ==
    \A w \in Workers : (pc[w] = "gns_scan" /\ scanI[w] = NumServers /\ AllDisabled) ~> (pc[w] = "idle")

\* C6 (as claimed): once the provider check has returned false before any
\* relay was handed out, the process reaches its end with no success, no
\* failure and no relay ever handed out.
C6_EarlyGateFalseAborts ==
    (GateFalseSeen /\ NoneSelected) ~> (mainPc = "done" /\ success_count = 0 /\ failure_count = 0 /\ NoneSelected)

\* C7 (as claimed): after a get_next_server call has observed sending
\* disabled, no further recipient is dispatched and no relay is handed out for
\* a new delivery attempt.
C7_GateFalseStopsRun ==
    [][GateFalseSeen => (nextTask' = nextTask /\ selected' = selected)]_vars

\* C8 (as claimed): every run eventually prints the final summary.
C8_SummaryAlwaysPrinted == <>(summary # <<>>)

\* C9 (as claimed): for every recipient whose send_email call has finished,
\* exactly one counter increment was made for it and exactly one outcome
\* tuple was enqueued for it.
C9_ExactlyOneOutcome ==
    \A r \in 1..MaxEmails : finished[r] # "no" => (incs[r] = 1 /\ puts[r] = 1)

\* C10 (as claimed): with no disables and the gate never false, the
\* selection counts of any two relays differ by at most BurstThreshold - 1.
C10_FairnessOriginal ==
    (NoneDisabled /\ ~GateFalseSeen) => \A i, j \in Relays : selected[i] - selected[j] <= BurstThreshold - 1

\* C10 (amended): with no disables and the gate never false, the selection
\* counts of any two relays differ by at most BurstThreshold.
C10_FairnessAmended ==
    (NoneDisabled /\ ~GateFalseSeen) => \A i, j \in Relays : selected[i] - selected[j] <= BurstThreshold

\* a run without disables or gate failures in which relay 1 is a full burst
\* ahead of relay 2, and one in which relay 2 has then been selected
C10_Witness ==
    /\ NumServers >= 2
    /\ NoneDisabled
    /\ ~GateFalseSeen
    /\ selected[1] = BurstThreshold
    /\ selected[2] = 1

InPoolBody(w) == pc[w] \in {"gns_check", "gns_scan", "dis_body"}
PoolChanged == smtp_servers' # smtp_servers \/ current_index' # current_index
FlagsChanged == \E i \in Relays : smtp_servers'[i].disabled # smtp_servers[i].disabled
Moved(w) == pc'[w] # pc[w] \/ scanI'[w] # scanI[w]
PastDisable(w) == out[w] = "paused454" /\ pc[w] \in {"inc_lock", "inc_store", "put"}

\* C11: a worker inside the body of get_next_server or disable_server holds
\* the pool lock, so at most one worker is inside at a time; every change of
\* the cursor, a count or a disabled flag is a step of the lock holder; and
\* no disabled flag changes while some worker is in its relay scan.
C11_PoolUnderLock ==
    /\ [](\A w \in Workers : InPoolBody(w) => lock = w)
    /\ [](Cardinality({w \in Workers : InPoolBody(w)}) <= 1)
    /\ [][PoolChanged => \E w \in Workers : lock = w /\ InPoolBody(w) /\ Moved(w)]_vars
    /\ [][(\E w \in Workers : pc[w] = "gns_scan") => ~FlagsChanged]_vars

\* one worker is in its relay scan while another waits to disable a relay
C11_Witness ==
    \E w1, w2 \in Workers : pc[w1] = "gns_scan" /\ lock = w1 /\ pc[w2] = "dis_lock"

\* C12: success_count is the number of completed success increments and
\* failure_count the number of completed failure increments.
C12_NoLostUpdate ==
    /\ success_count = succDone
    /\ failure_count = failDone

\* two workers increment the same counter: one is between load and store
\* while the other waits for the lock, after an earlier increment
C12_Witness ==
    \E w1, w2 \in Workers :
        /\ pc[w1] = "inc_store"
        /\ pc[w2] = "inc_lock"
        /\ ok[w1] = ok[w2]
        /\ succDone + failDone > 0

\* C13: disabling a relay identity a second time changes nothing: applied to
\* any reachable pool and any identity, disable_server's loop gives the same
\* relay list after two runs as after one, and a disable_server call leaves
\* the cursor and every usage count as they were.
C13_DisableIdempotent ==
    /\ [](\A id \in 1..MaxServers :
            LET once == DisableAll(smtp_servers, NewServer(id))
            IN  DisableAll(once, NewServer(id)) = once)
    /\ [][\A w \in Workers : (pc[w] = "dis_body" /\ pc'[w] # "dis_body") =>
            /\ current_index' = current_index
            /\ \A i \in Relays : smtp_servers'[i].count = smtp_servers[i].count
            /\ DisableAll(smtp_servers', smtp_servers'[smtp_info[w]]) = smtp_servers']_vars

\* two workers have both completed disable_server for the same identity
C13_Witness ==
    \E w1, w2 \in Workers :
        /\ w1 # w2
        /\ PastDisable(w1)
        /\ PastDisable(w2)
        /\ SameIdentity(smtp_servers[smtp_info[w1]], smtp_servers[smtp_info[w2]])

\* C14: with one full burst of recipients per relay, the gate always enabled
\* and every delivery successful, no relay is ever returned more than
\* BurstThreshold times and the run ends, and stays, with every relay
\* returned exactly BurstThreshold times, success_count = 3n and
\* failure_count = 0.
C14_ScenarioA ==
    /\ [](\A i \in Relays : selected[i] <= BurstThreshold)
    /\ <>[](/\ mainPc = "done"
            /\ \A i \in Relays : selected[i] = BurstThreshold
            /\ success_count = BurstThreshold * NumServers
            /\ failure_count = 0)

\* the run has ended with the most relays and the most workers
C14_Witness ==
    /\ mainPc = "done"
    /\ NumServers = MaxServers
    /\ threads = MaxThreads
    /\ success_count = BurstThreshold * MaxServers
    /\ \A i \in Relays : selected[i] = BurstThreshold

HandlingPcs == {"deliver", "dis_lock", "dis_body", "inc_lock", "inc_store", "put"}
OutcomeOf(w) == IF pc[w] = "deliver" THEN out'[w] ELSE out[w]
CursorRelay == smtp_servers[current_index + 1]
EntriesFor(r) == {k \in 1..Len(progress_queue) : progress_queue[k][1] = r}
SuccessEntries == {k \in 1..Len(progress_queue) : progress_queue[k][2]}
FailureEntries == {k \in 1..Len(progress_queue) : ~progress_queue[k][2]}

\* some relay of another identity than relay i is not disabled
OtherRelayUsable(i) ==
    \E j \in Relays : ~SameIdentity(smtp_servers[j], smtp_servers[i]) /\ ~smtp_servers[j].disabled

\* C15 (as claimed): when a relay's first and so far only use has returned
\* the paused-account error while another relay is usable and no call has
\* ended on the provider gate, then eventually
\* that relay is disabled, a failure is recorded, the relay has never been
\* selected again, and every recipient of the run has been delivered
\* (through another relay).
C15_PausedRelayReplaced ==
    \A w \in Workers : \A i \in 1..MaxServers :
        (pc[w] = "dis_lock" /\ out[w] = "paused454" /\ smtp_info[w] = i /\ selected[i] = 1 /\ OtherRelayUsable(i) /\ ~GateFalseSeen)
        ~> (/\ i <= NumServers
            /\ smtp_servers[i].disabled
            /\ failure_count >= 1
            /\ selected[i] = 1
            /\ \A r \in Recipients : r <= total_emails => finished[r] = "returned")

\* C16: a step of send_email's outcome handling for a delivery that succeeded
\* or failed with an error other than the paused-account error changes no
\* disabled flag, no usage count and not the cursor.
C16_OutcomeFrame ==
    [][\A w \in Workers :
        (pc[w] \in HandlingPcs /\ pc'[w] # pc[w] /\ OutcomeOf(w) # "paused454")
        => (smtp_servers' = smtp_servers /\ current_index' = current_index)]_vars

\* a delivery failed with another SMTP error, its outcome is being recorded
\* and the relay it used is not disabled
C16_Witness ==
    \E w \in Workers :
        /\ out[w] = "smtp_error"
        /\ pc[w] = "put"
        /\ ~smtp_servers[smtp_info[w]].disabled

\* C17: the rotation cursor is a valid index into the relay list.
C17_CursorValid == current_index \in 0..(NumServers - 1)

\* with two relays a complete pass has moved the cursor twice, wrapping it
C17_Witness ==
    /\ NumServers >= 2
    /\ current_index = 0
    /\ \E w \in Workers : pc[w] = "gns_scan" /\ scanI[w] = NumServers

\* C18: a step that returns a relay leaves the cursor on the returned relay;
\* the cursor moves only off a relay that is disabled or whose count has
\* reached the threshold; and a call whose first look finds the relay at the
\* cursor enabled and under the threshold returns at once, leaving the cursor
\* and changing only that relay's count, by +1.
C18_CursorFrame ==
    [][/\ \A w \in Workers : (pc[w] = "gns_scan" /\ pc'[w] = "deliver") => current_index' + 1 = smtp_info'[w]
       /\ current_index' # current_index => (CursorRelay.disabled \/ CursorRelay.count = BurstThreshold)
       /\ \A w \in Workers :
            (pc[w] = "gns_scan" /\ scanI[w] = 0 /\ Moved(w) /\ ~CursorRelay.disabled /\ CursorRelay.count < BurstThreshold)
            => (/\ pc'[w] = "deliver"
                /\ current_index' = current_index
                /\ smtp_servers' = [smtp_servers EXCEPT ![current_index + 1].count = @ + 1])]_vars

\* the cursor was moved off relay 1 and relay 2, at the cursor, has been
\* returned twice, the second time at first look
C18_Witness ==
    /\ NumServers >= 2
    /\ current_index = 1
    /\ smtp_servers[2].count = 2
    /\ \E w \in Workers : pc[w] = "deliver" /\ smtp_info[w] = 2

\* C19: the step in which get_next_server finds provider sending disabled
\* changes no relay, not the cursor, and leaves the pool lock free.
C19_GateFalseFrame ==
    [][\A w \in Workers :
        (pc[w] = "gns_check" /\ pc'[w] = "idle")
        => (smtp_servers' = smtp_servers /\ current_index' = current_index /\ lock' = NoWorker)]_vars

\* after a call ended on the disabled gate, the same worker is inside the
\* next call's scan
C19_Witness ==
    /\ threads = 1
    /\ finished[1] = "raised"
    /\ \E w \in Workers : rcpt[w] = 2 /\ pc[w] = "gns_scan"

\* C20: when main is about to print the failure report, the queue holds
\* exactly one entry for every recipient, as many success entries as
\* success_count and as many failure entries as failure_count.
C20_QueueMatchesCounts ==
    mainPc = "report" =>
        /\ Cardinality(SuccessEntries) = success_count
        /\ Cardinality(FailureEntries) = failure_count
        /\ \A r \in Recipients : r <= total_emails => Cardinality(EntriesFor(r)) = 1

\* main is about to print the report of a full run with both kinds of entry
C20_Witness ==
    /\ mainPc = "report"
    /\ total_emails = MaxEmails
    /\ success_count > 0
    /\ failure_count > 0
====
